---- MODULE Spec2Model ----
(***************************************************************************)
(* Control flow of main() in i-Code-Doc/run_pretraining.py: argument       *)
(* loading, checkpoint detection, model/tokenizer loading, dataset         *)
(* assembly and the train / evaluate phases of one process of a            *)
(* (possibly distributed) pretraining run.                                 *)
(*                                                                         *)
(* One behaviour is one run of main() in one process.  The external        *)
(* collaborators (from_pretrained, the dataset constructors, the Trainer)  *)
(* are modelled by the calls main() makes on them, recorded in `calls`,    *)
(* and are taken to return normally.                                       *)
(***************************************************************************)
EXTENDS Integers, Sequences, FiniteSets, TLC

VARIABLES
    pc,                 \* position of the process inside main()
    argv,               \* shape of sys.argv[1:]: "json" or "flags"
    is_world_process_zero, \* what trainer.is_world_process_zero() answers in this process
    dir_exists,         \* os.path.isdir(training_args.output_dir)
    dir_entries,        \* os.listdir(training_args.output_dir)
    dir0_exists,        \* the output directory as it was when the process started
    dir0_entries,
    model_args,         \* the three argument records (unbound until parsed)
    data_args,
    training_args,
    last_checkpoint,    \* local of main(): "None" or the checkpoint's path
    error,              \* the uncaught exception that ended the run, "none" otherwise
    config,             \* the UdopConfig built by the run
    model,              \* the model: its embedding table's size
    tokenizer,          \* the tokenizer: its model_max_length and vocabulary size
    train_dataset,      \* local of main(): unbound, or the mapping key -> datasets
    eval_dataset,       \* local of main(): "unbound", "None" or the dev dataset
    trainer,            \* whether PretrainTrainer(...) was constructed
    resume_from_checkpoint, \* the argument of each trainer.train call, in order
    resize_arg,         \* the argument of each model.resize_token_embeddings call
    calls               \* the calls main() made on its collaborators, in order

vars == <<pc, argv, is_world_process_zero, dir_exists, dir_entries, dir0_exists,
          dir0_entries, model_args, data_args, training_args, last_checkpoint,
          error, config, model, tokenizer, train_dataset, eval_dataset, trainer,
          resume_from_checkpoint, resize_arg, calls>>

(***************************************************************************)
(* Bounds                                                                  *)
(***************************************************************************)
MaxCkpt == 2        \* checkpoint-1 .. checkpoint-MaxCkpt may lie in the output directory
MaxSeqLen == 2      \* sequence lengths and tokenizer limits range over 1..MaxSeqLen
MaxVocab == 2       \* vocabulary / embedding sizes range over 1..MaxVocab

(***************************************************************************)
(* Values                                                                  *)
(***************************************************************************)
NotBound == [bound |-> FALSE]

output_dir == "out"

Join(a, b) == a \o "/" \o b

CheckpointName(n) == "checkpoint-" \o ToString(n)

CheckpointNames == {CheckpointName(n) : n \in 1..MaxCkpt}

\* What an earlier run, or the user, may have left in the output directory.
OtherEntries == {"events.log"}

\* Values of --cache_dir: absent, a directory outside the output directory,
\* or the very directory the default would name.
CacheDirs == {"None", "/ext/cache", Join(output_dir, "cache")}

MODEL_CLASSES == {"UdopUnimodel", "UdopDual"}

SelfSupervisedDatasets ==
    <<"IITCDIPDataset:layout_modeling",
      "IITCDIPDataset:text_and_layout_reconstruction",
      "IITCDIPDataset:visual_text_recognition">>

SupervisedDatasets ==
    <<"Publaynet:layout", "Docbank:layout", "Docbank:ie", "Websrc:qa",
      "VisualMRC:qa", "Duebenchmark">>

(***************************************************************************)
(* core.common.utils.get_last_checkpoint: the path of the checkpoint       *)
(* marker with the highest step in the directory, None when there is none. *)
(***************************************************************************)
get_last_checkpoint(entries) ==
    LET steps == {n \in 1..MaxCkpt : CheckpointName(n) \in entries}
    IN  IF steps = {} THEN "None"
        ELSE Join(output_dir,
                  CheckpointName(CHOOSE n \in steps : \A m \in steps : m <= n))

Call(op) == calls' = Append(calls, op)

Raise(exc) == /\ pc' = "error"
              /\ error' = exc

Count(op) == Cardinality({i \in 1..Len(calls) : calls[i] = op})

Called(op) == \E i \in 1..Len(calls) : calls[i] = op

Before(a, b) == \A j \in 1..Len(calls) : calls[j] = b =>
                    \E i \in 1..(j - 1) : calls[i] = a

Init ==
    /\ pc = "parse"
    /\ argv \in {"json", "flags"}
    /\ is_world_process_zero \in BOOLEAN
    /\ \/ dir_exists = FALSE /\ dir_entries = {}
       \/ dir_exists = TRUE /\ dir_entries \in SUBSET (CheckpointNames \cup OtherEntries)
    /\ dir0_exists = dir_exists
    /\ dir0_entries = dir_entries
    /\ model_args = NotBound
    /\ data_args = NotBound
    /\ training_args = NotBound
    /\ last_checkpoint = "None"
    /\ error = "none"
    /\ config = NotBound
    /\ model = NotBound
    /\ tokenizer = NotBound
    /\ train_dataset = NotBound
    /\ eval_dataset = "unbound"
    /\ trainer = FALSE
    /\ resume_from_checkpoint = <<>>
    /\ resize_arg = <<>>
    /\ calls = <<>>

(***************************************************************************)
(* Lines 47-61: the argument loader.                                       *)
(***************************************************************************)
\* Line 57 hands json.loads the absolute PATH of the file, not its contents: a
\* path ("/.../x.json") is never a JSON document, so the call raises
\* json.JSONDecodeError and model_args, data_args, training_args stay unbound.
ParseArgs ==
    /\ pc = "parse"
    /\ IF argv = "json"
       THEN /\ Raise("JSONDecodeError")
            /\ UNCHANGED <<model_args, data_args, training_args>>
       ELSE /\ \E cd \in CacheDirs :
                   model_args' = [bound |-> TRUE, cache_dir |-> cd]
            /\ \E ss \in BOOLEAN, su \in BOOLEAN, msl \in 1..MaxSeqLen,
                  mt \in MODEL_CLASSES :
                   data_args' = [bound |-> TRUE, do_selfsupervised |-> ss,
                                 do_supervised |-> su, max_seq_length |-> msl,
                                 model_type |-> mt]
            /\ \E dt \in BOOLEAN, de \in BOOLEAN, ow \in BOOLEAN :
                   training_args' = [bound |-> TRUE, do_train |-> dt, do_eval |-> de,
                                     overwrite_output_dir |-> ow,
                                     logging_dir |-> "None"]
            /\ pc' = "derive"
            /\ UNCHANGED error
    /\ UNCHANGED <<argv, is_world_process_zero, dir_exists, dir_entries, dir0_exists,
                   dir0_entries, last_checkpoint, config, model, tokenizer,
                   train_dataset, eval_dataset, trainer, resume_from_checkpoint,
                   resize_arg, calls>>

(***************************************************************************)
(* Lines 62-71: derived fields; the cache directory is defaulted to        *)
(* <output_dir>/cache and created.                                         *)
(***************************************************************************)
DefaultCacheDir(cd) == IF cd = "None" THEN Join(output_dir, "cache") ELSE cd

DeriveArgs ==
    /\ pc = "derive"
    /\ LET cd == DefaultCacheDir(model_args.cache_dir)
       IN  /\ model_args' = [model_args EXCEPT !.cache_dir = cd]
           \* os.makedirs(cache_dir, exist_ok=True)
           /\ IF cd = Join(output_dir, "cache")
              THEN /\ dir_exists' = TRUE
                   /\ dir_entries' = dir_entries \cup {"cache"}
              ELSE UNCHANGED <<dir_exists, dir_entries>>
    /\ training_args' = [training_args EXCEPT !.logging_dir = Join(output_dir, "runs")]
    /\ pc' = "detect"
    /\ UNCHANGED <<argv, is_world_process_zero, dir0_exists, dir0_entries, data_args,
                   last_checkpoint, error, config, model, tokenizer, train_dataset,
                   eval_dataset, trainer, resume_from_checkpoint, resize_arg, calls>>

(***************************************************************************)
(* Lines 75-86: detecting the last checkpoint.                             *)
(***************************************************************************)
\* Variant: the override flag is not consulted.
DetectionRuns_IgnoreOverride ==
    dir_exists /\ training_args.do_train

DetectionRuns ==
    dir_exists /\ training_args.do_train /\ ~training_args.overwrite_output_dir

\* Variant: the non-empty test is inverted.
DetectionRaises_Inverted(found) == found = "None" /\ Cardinality(dir_entries) = 0

DetectionRaises(found) == found = "None" /\ Cardinality(dir_entries) > 0

DetectCheckpoint ==
    /\ pc = "detect"
    /\ IF DetectionRuns
       THEN LET found == get_last_checkpoint(dir_entries)
            IN  /\ Call("get_last_checkpoint")
                /\ last_checkpoint' = found
                /\ IF DetectionRaises(found)
                   THEN Raise("ValueError")
                   ELSE pc' = "config" /\ UNCHANGED error
       ELSE /\ pc' = "config"
            /\ UNCHANGED <<last_checkpoint, error, calls>>
    /\ UNCHANGED <<argv, is_world_process_zero, dir_exists, dir_entries, dir0_exists,
                   dir0_entries, model_args, data_args, training_args, config, model,
                   tokenizer, train_dataset, eval_dataset, trainer,
                   resume_from_checkpoint, resize_arg>>

(***************************************************************************)
(* Lines 110-128: the configuration, from the MODEL_CLASSES entry of       *)
(* data_args.model_type.  (Lines 89-106 set up logging and change nothing  *)
(* that is modelled.)                                                      *)
(***************************************************************************)
LoadConfig ==
    /\ pc = "config"
    /\ data_args.model_type \in MODEL_CLASSES
    /\ config' = [bound |-> TRUE, cache_dir |-> model_args.cache_dir,
                  max_seq_len |-> data_args.max_seq_length]
    /\ Call("config.from_pretrained")
    /\ pc' = "model"
    /\ UNCHANGED <<argv, is_world_process_zero, dir_exists, dir_entries, dir0_exists,
                   dir0_entries, model_args, data_args, training_args, last_checkpoint,
                   error, model, tokenizer, train_dataset, eval_dataset, trainer,
                   resume_from_checkpoint, resize_arg>>

(***************************************************************************)
(* Lines 132-138: the model; its embedding table has the size the          *)
(* pretrained weights give it.                                             *)
(***************************************************************************)
LoadModel ==
    /\ pc = "model"
    /\ \E n \in 1..MaxVocab : model' = [bound |-> TRUE, embeddings |-> n]
    /\ Call("model.from_pretrained")
    /\ pc' = "tokenizer"
    /\ UNCHANGED <<argv, is_world_process_zero, dir_exists, dir_entries, dir0_exists,
                   dir0_entries, model_args, data_args, training_args, last_checkpoint,
                   error, config, tokenizer, train_dataset, eval_dataset, trainer,
                   resume_from_checkpoint, resize_arg>>

(***************************************************************************)
(* Lines 139-144: the tokenizer, with its own default limit and            *)
(* vocabulary size.                                                        *)
(***************************************************************************)
LoadTokenizer ==
    /\ pc = "tokenizer"
    /\ \E limit \in 1..MaxSeqLen, n \in 1..MaxVocab :
           tokenizer' = [bound |-> TRUE, model_max_length |-> limit,
                         default_max_length |-> limit, len |-> n]
    /\ Call("tokenizer.from_pretrained")
    /\ pc' = "limit"
    /\ UNCHANGED <<argv, is_world_process_zero, dir_exists, dir_entries, dir0_exists,
                   dir0_entries, model_args, data_args, training_args, last_checkpoint,
                   error, config, model, train_dataset, eval_dataset, trainer,
                   resume_from_checkpoint, resize_arg>>

(***************************************************************************)
(* Lines 145-146: raise the tokenizer's limit to the configured length.    *)
(***************************************************************************)
\* Variant: the limit is assigned without the comparison.
RaisedLimit_Unconditional(max_seq_length, model_max_length) == max_seq_length

RaisedLimit(max_seq_length, model_max_length) ==
    IF max_seq_length > model_max_length THEN max_seq_length ELSE model_max_length

RaiseTokenizerLimit ==
    /\ pc = "limit"
    /\ tokenizer' = [tokenizer EXCEPT !.model_max_length =
                        RaisedLimit(data_args.max_seq_length, tokenizer.model_max_length)]
    /\ pc' = "resize"
    /\ UNCHANGED <<argv, is_world_process_zero, dir_exists, dir_entries, dir0_exists,
                   dir0_entries, model_args, data_args, training_args, last_checkpoint,
                   error, config, model, train_dataset, eval_dataset, trainer,
                   resume_from_checkpoint, resize_arg, calls>>

(***************************************************************************)
(* Line 147: model.resize_token_embeddings(len(tokenizer)).                *)
(***************************************************************************)
ResizeEmbeddings ==
    /\ pc = "resize"
    /\ resize_arg' = Append(resize_arg, tokenizer.len)
    /\ model' = [model EXCEPT !.embeddings = tokenizer.len]
    /\ Call("model.resize_token_embeddings")
    /\ pc' = "train_data"
    /\ UNCHANGED <<argv, is_world_process_zero, dir_exists, dir_entries, dir0_exists,
                   dir0_entries, model_args, data_args, training_args, last_checkpoint,
                   error, config, tokenizer, train_dataset, eval_dataset, trainer,
                   resume_from_checkpoint>>

(***************************************************************************)
(* Lines 151-164: the training datasets, under the key 'lang'.             *)
(***************************************************************************)
\* Variant: the supervised corpora are put first.
LangDatasets_SupervisedFirst(do_selfsupervised, do_supervised) ==
    (IF do_supervised THEN SupervisedDatasets ELSE <<>>)
        \o (IF do_selfsupervised THEN SelfSupervisedDatasets ELSE <<>>)

LangDatasets(do_selfsupervised, do_supervised) ==
    (IF do_selfsupervised THEN SelfSupervisedDatasets ELSE <<>>)
        \o (IF do_supervised THEN SupervisedDatasets ELSE <<>>)

\* Variant: the empty mapping is not rejected.
NoTrainingData_Accepted(do_selfsupervised, do_supervised) == FALSE

NoTrainingData(do_selfsupervised, do_supervised) ==
    ~(do_selfsupervised \/ do_supervised)

BuildTrainDatasets ==
    /\ pc = "train_data"
    /\ IF training_args.do_train
       THEN IF NoTrainingData(data_args.do_selfsupervised, data_args.do_supervised)
            THEN \* train_dataset == {}: the bare raise, outside any except
                 \* clause, is a RuntimeError
                 /\ train_dataset' = [bound |-> TRUE, keys |-> {}, lang |-> <<>>,
                                      concatenated |-> FALSE]
                 /\ Raise("RuntimeError")
                 /\ UNCHANGED calls
            ELSE /\ train_dataset' =
                        [bound |-> TRUE, keys |-> {"lang"},
                         lang |-> LangDatasets(data_args.do_selfsupervised,
                                               data_args.do_supervised),
                         concatenated |-> TRUE]
                 /\ Call("ConcatDataset")
                 /\ pc' = "eval_data"
                 /\ UNCHANGED error
       ELSE \* train_dataset is never assigned
            /\ pc' = "eval_data"
            /\ UNCHANGED <<train_dataset, error, calls>>
    /\ UNCHANGED <<argv, is_world_process_zero, dir_exists, dir_entries, dir0_exists,
                   dir0_entries, model_args, data_args, training_args, last_checkpoint,
                   config, model, tokenizer, eval_dataset, trainer,
                   resume_from_checkpoint, resize_arg>>

(***************************************************************************)
(* Lines 166-171: the evaluation dataset.                                  *)
(***************************************************************************)
BuildEvalDataset ==
    /\ pc = "eval_data"
    /\ eval_dataset' = IF training_args.do_eval THEN "IITCDIPDataset:dev" ELSE "None"
    /\ pc' = "trainer"
    /\ UNCHANGED <<argv, is_world_process_zero, dir_exists, dir_entries, dir0_exists,
                   dir0_entries, model_args, data_args, training_args, last_checkpoint,
                   error, config, model, tokenizer, train_dataset, trainer,
                   resume_from_checkpoint, resize_arg, calls>>

(***************************************************************************)
(* Lines 176-190: PretrainTrainer(..., train_dataset=train_dataset, ...).  *)
(* Reading the local train_dataset when it was never assigned raises       *)
(* UnboundLocalError.                                                      *)
(***************************************************************************)
ConstructTrainer ==
    /\ pc = "trainer"
    /\ IF train_dataset.bound
       THEN /\ trainer' = TRUE
            /\ Call("PretrainTrainer")
            /\ pc' = "train"
            /\ UNCHANGED error
       ELSE /\ Raise("UnboundLocalError")
            /\ UNCHANGED <<trainer, calls>>
    /\ UNCHANGED <<argv, is_world_process_zero, dir_exists, dir_entries, dir0_exists,
                   dir0_entries, model_args, data_args, training_args, last_checkpoint,
                   config, model, tokenizer, train_dataset, eval_dataset,
                   resume_from_checkpoint, resize_arg>>

(***************************************************************************)
(* Lines 192-199: trainer.train(resume_from_checkpoint=checkpoint).        *)
(***************************************************************************)
\* Variant: the detected checkpoint is not handed on.
Checkpoint_Dropped(last) == "None"

Checkpoint(last) == IF last # "None" THEN last ELSE "None"

Train ==
    /\ pc = "train"
    /\ IF training_args.do_train
       THEN /\ resume_from_checkpoint' =
                   Append(resume_from_checkpoint, Checkpoint(last_checkpoint))
            /\ Call("trainer.train")
            /\ pc' = "save_model"
       ELSE /\ pc' = "evaluate"
            /\ UNCHANGED <<resume_from_checkpoint, calls>>
    /\ UNCHANGED <<argv, is_world_process_zero, dir_exists, dir_entries, dir0_exists,
                   dir0_entries, model_args, data_args, training_args, last_checkpoint,
                   error, config, model, tokenizer, train_dataset, eval_dataset,
                   trainer, resize_arg>>

(***************************************************************************)
(* Line 200: trainer.save_model(), in every process that trained.          *)
(***************************************************************************)
SaveModel ==
    /\ pc = "save_model"
    /\ Call("trainer.save_model")
    /\ pc' = "save_state"
    /\ UNCHANGED <<argv, is_world_process_zero, dir_exists, dir_entries, dir0_exists,
                   dir0_entries, model_args, data_args, training_args, last_checkpoint,
                   error, config, model, tokenizer, train_dataset, eval_dataset,
                   trainer, resume_from_checkpoint, resize_arg>>

(***************************************************************************)
(* Lines 202-206: the tokenizer and trainer_state.json, on the primary     *)
(* process only.                                                           *)
(***************************************************************************)
\* Variant: the rank test is missing.
StateSaveIssued_AnyRank(world_zero) == TRUE

StateSaveIssued(world_zero) == world_zero

SaveTokenizerAndState ==
    /\ pc = "save_state"
    /\ IF StateSaveIssued(is_world_process_zero)
       THEN /\ calls' = calls \o <<"tokenizer.save_pretrained",
                                   "trainer.state.save_to_json">>
            /\ dir_exists' = TRUE
            /\ dir_entries' = dir_entries \cup {"tokenizer.json", "trainer_state.json"}
       ELSE UNCHANGED <<calls, dir_exists, dir_entries>>
    /\ pc' = "evaluate"
    /\ UNCHANGED <<argv, is_world_process_zero, dir0_exists, dir0_entries, model_args,
                   data_args, training_args, last_checkpoint, error, config, model,
                   tokenizer, train_dataset, eval_dataset, trainer,
                   resume_from_checkpoint, resize_arg>>

(***************************************************************************)
(* Lines 209-212: trainer.evaluate().                                      *)
(***************************************************************************)
Evaluate ==
    /\ pc = "evaluate"
    /\ IF training_args.do_eval
       THEN /\ Call("trainer.evaluate")
            /\ pc' = "write_eval"
       ELSE /\ pc' = "done"
            /\ UNCHANGED calls
    /\ UNCHANGED <<argv, is_world_process_zero, dir_exists, dir_entries, dir0_exists,
                   dir0_entries, model_args, data_args, training_args, last_checkpoint,
                   error, config, model, tokenizer, train_dataset, eval_dataset,
                   trainer, resume_from_checkpoint, resize_arg>>

(***************************************************************************)
(* Lines 213-221: eval_results.txt, on the primary process only.           *)
(***************************************************************************)
EvalWriteIssued(world_zero) == world_zero

WriteEvalResults ==
    /\ pc = "write_eval"
    /\ IF EvalWriteIssued(is_world_process_zero)
       THEN /\ Call("open:eval_results.txt")
            /\ dir_exists' = TRUE
            /\ dir_entries' = dir_entries \cup {"eval_results.txt"}
       ELSE UNCHANGED <<calls, dir_exists, dir_entries>>
    /\ pc' = "done"
    /\ UNCHANGED <<argv, is_world_process_zero, dir0_exists, dir0_entries, model_args,
                   data_args, training_args, last_checkpoint, error, config, model,
                   tokenizer, train_dataset, eval_dataset, trainer,
                   resume_from_checkpoint, resize_arg>>

Next ==
    \/ ParseArgs
    \/ DeriveArgs
    \/ DetectCheckpoint
    \/ LoadConfig
    \/ LoadModel
    \/ LoadTokenizer
    \/ RaiseTokenizerLimit
    \/ ResizeEmbeddings
    \/ BuildTrainDatasets
    \/ BuildEvalDataset
    \/ ConstructTrainer
    \/ Train
    \/ SaveModel
    \/ SaveTokenizerAndState
    \/ Evaluate
    \/ WriteEvalResults

Spec == Init /\ [][Next]_vars

(***************************************************************************)
(* Properties                                                              *)
(***************************************************************************)
ArgsLoaded == model_args.bound /\ data_args.bound /\ training_args.bound

Ended == pc \in {"done", "error"}

DetectionDone == pc \notin {"parse", "derive", "detect"}

TrainPhaseDone == pc \in {"save_model", "save_state", "evaluate", "write_eval", "done"}

AllResume(path) == \A i \in 1..Len(resume_from_checkpoint) :
                       resume_from_checkpoint[i] = path

DetectingRun == /\ ArgsLoaded
                /\ training_args.do_train
                /\ ~training_args.overwrite_output_dir

\* C1: a run with do_train and without overwrite_output_dir whose output
\* directory was empty or absent at process start detects no checkpoint,
\* raises no configuration error and hands trainer.train None, for every
\* cache_dir (the default included).
C1_EmptyDirTrainsFresh ==
    (DetectingRun /\ (~dir0_exists \/ dir0_entries = {}))
        => /\ last_checkpoint = "None"
           /\ error # "ValueError"
           /\ AllResume("None")
           /\ pc = "done" => resume_from_checkpoint = <<"None">>

\* C2: a run with do_train and without overwrite_output_dir whose output
\* directory is non-empty and holds no checkpoint marker ends at the
\* detection step with ValueError, before config, model, tokenizer, datasets
\* or trainer exist; train, save_model and evaluate are never called.
C2_Pre == /\ DetectingRun
          /\ dir0_exists
          /\ dir0_entries # {}
          /\ get_last_checkpoint(dir0_entries) = "None"

C2_NonEmptyDirIsConfigurationError ==
    C2_Pre =>
        /\ DetectionDone =>
              /\ pc = "error"
              /\ error = "ValueError"
              /\ calls = <<"get_last_checkpoint">>
        /\ ~config.bound /\ ~model.bound /\ ~tokenizer.bound
        /\ ~train_dataset.bound /\ eval_dataset = "unbound" /\ ~trainer
        /\ ~Called("trainer.train")
        /\ ~Called("trainer.save_model")
        /\ ~Called("trainer.evaluate")

C2_Witness == C2_Pre /\ pc = "error" /\ error = "ValueError"

\* C3: a run with do_train and without overwrite_output_dir whose output
\* directory holds a checkpoint marker detects that checkpoint's path and,
\* unless dataset assembly fails, calls trainer.train exactly once, with
\* resume_from_checkpoint equal to that path.
C3_Pre == /\ DetectingRun
          /\ dir0_exists
          /\ get_last_checkpoint(dir0_entries) # "None"

C3_ResumesFromDetectedCheckpoint ==
    C3_Pre =>
        /\ DetectionDone => /\ last_checkpoint = get_last_checkpoint(dir0_entries)
                            /\ Called("get_last_checkpoint")
        /\ AllResume(get_last_checkpoint(dir0_entries))
        /\ Len(resume_from_checkpoint) <= 1
        /\ Count("trainer.train") = Len(resume_from_checkpoint)
        /\ TrainPhaseDone => Len(resume_from_checkpoint) = 1
        \* the only run that does not get to trainer.train is the one whose
        \* dataset assembly fails
        /\ pc = "error" => /\ error = "RuntimeError"
                           /\ ~data_args.do_selfsupervised
                           /\ ~data_args.do_supervised

C3_Witness ==
    /\ C3_Pre
    /\ pc = "done"
    /\ {CheckpointName(1), CheckpointName(2)} \subseteq dir0_entries
    /\ resume_from_checkpoint = <<Join(output_dir, CheckpointName(2))>>

\* C4: with overwrite_output_dir and do_train, detection is skipped:
\* get_last_checkpoint is never called, no configuration error is raised
\* whatever the directory holds, and every trainer.train call (one in each
\* run that completes) gets resume_from_checkpoint=None.
C4_Pre == /\ ArgsLoaded
          /\ training_args.do_train
          /\ training_args.overwrite_output_dir

C4_OverwriteSkipsDetection ==
    C4_Pre =>
        /\ ~Called("get_last_checkpoint")
        /\ error # "ValueError"
        /\ last_checkpoint = "None"
        /\ AllResume("None")
        /\ TrainPhaseDone => resume_from_checkpoint = <<"None">>

C4_Witness ==
    /\ C4_Pre
    /\ pc = "done"
    /\ CheckpointName(1) \in dir0_entries
    /\ "events.log" \in dir0_entries
    /\ resume_from_checkpoint = <<"None">>

\* C5: with do_train and neither do_selfsupervised nor do_supervised, a run
\* that passes detection ends in dataset assembly with a fatal error: no
\* ConcatDataset is built, no trainer is constructed, train and evaluate are
\* never called.
C5_Pre == /\ ArgsLoaded
          /\ training_args.do_train
          /\ ~data_args.do_selfsupervised
          /\ ~data_args.do_supervised

C5_NoTrainingDataIsFatal ==
    C5_Pre =>
        /\ pc \notin {"eval_data", "trainer", "train", "save_model", "save_state",
                      "evaluate", "write_eval", "done"}
        /\ (pc = "error" /\ error # "ValueError") =>
              /\ error = "RuntimeError"
              /\ train_dataset.bound /\ train_dataset.keys = {}
        /\ train_dataset.bound => ~train_dataset.concatenated
        /\ ~Called("ConcatDataset")
        /\ ~trainer
        /\ ~Called("PretrainTrainer")
        /\ ~Called("trainer.train")
        /\ ~Called("trainer.evaluate")

C5_Witness == C5_Pre /\ pc = "error" /\ error = "RuntimeError"
                     /\ Called("model.resize_token_embeddings")

\* C6: with do_eval, every run that ends without the configuration error of
\* detection or the missing-data error of dataset assembly has constructed
\* the trainer and called trainer.evaluate exactly once (after trainer.train
\* when do_train is set), do_train=false included.
C6_EvaluateOnDoEvalAlone ==
    (/\ ArgsLoaded
     /\ training_args.do_eval
     /\ Ended
     /\ error \notin {"ValueError", "RuntimeError"})
        => /\ trainer
           /\ Count("trainer.evaluate") = 1
           /\ Before("trainer.train", "trainer.evaluate") \/ ~training_args.do_train

\* C7 (as stated): a process that is not world process zero issues none of
\* save_model, the tokenizer save, trainer_state.json, eval_results.txt.
OutputWrites == {"trainer.save_model", "tokenizer.save_pretrained",
                 "trainer.state.save_to_json", "open:eval_results.txt"}

C7_AllFourWritesOnPrimaryOnly ==
    ~is_world_process_zero => \A op \in OutputWrites : ~Called(op)

\* C7 (amended): a process that is not world process zero issues none of the
\* tokenizer save, trainer_state.json and eval_results.txt; trainer.save_model
\* is called once by every process that trained, whatever its rank.
C7_DirectWritesOnPrimaryOnly ==
    /\ ~is_world_process_zero =>
          \A op \in OutputWrites \ {"trainer.save_model"} : ~Called(op)
    /\ Count("trainer.save_model") = Count("trainer.train")
         \/ (pc = "save_model" /\ Count("trainer.save_model") = 0)
    /\ pc \in {"save_state", "evaluate", "write_eval", "done"} =>
          Count("trainer.save_model") = 1

C7_Witness ==
    /\ ~is_world_process_zero
    /\ pc = "done"
    /\ training_args.do_eval
    /\ Called("trainer.save_model")
    /\ Called("trainer.evaluate")

\* C8 (as stated): with do_train and do_selfsupervised, the training set
\* under 'lang' is exactly the three self-supervised datasets, whatever
\* do_supervised is.
C8_Pre == /\ ArgsLoaded
          /\ training_args.do_train
          /\ data_args.do_selfsupervised
          /\ train_dataset.bound

C8_ExactlyThreeDatasets ==
    C8_Pre => train_dataset.lang =
                  <<"IITCDIPDataset:layout_modeling",
                    "IITCDIPDataset:text_and_layout_reconstruction",
                    "IITCDIPDataset:visual_text_recognition">>

\* C8 (amended): with do_train and do_selfsupervised, the training set under
\* 'lang' starts with exactly the three self-supervised datasets, in the
\* order layout_modeling, text_and_layout_reconstruction,
\* visual_text_recognition; it is exactly those three when do_supervised is
\* false, and they are followed by the six supervised datasets when it is
\* true.
C8_ThreeThenSupervised ==
    C8_Pre =>
        /\ train_dataset.keys = {"lang"}
        /\ train_dataset.concatenated
        /\ Len(train_dataset.lang) = IF data_args.do_supervised THEN 9 ELSE 3
        /\ SubSeq(train_dataset.lang, 1, 3) =
               <<"IITCDIPDataset:layout_modeling",
                 "IITCDIPDataset:text_and_layout_reconstruction",
                 "IITCDIPDataset:visual_text_recognition">>
        /\ \A i \in 4..Len(train_dataset.lang) :
               /\ train_dataset.lang[i] = SupervisedDatasets[i - 3]
               /\ train_dataset.lang[i] \notin
                      {SelfSupervisedDatasets[j] : j \in 1..3}

C8_Witness ==
    /\ C8_Pre
    /\ data_args.do_supervised
    /\ Len(train_dataset.lang) = 9
    /\ pc = "done"

\* C9: argument loading yields the three argument records in both invocation
\* forms, the single .json argument included.
C9_BothFormsLoadArguments ==
    pc # "parse" => ArgsLoaded /\ error # "JSONDecodeError"

\* C10: the tokenizer is constructed, then its limit is raised to
\* max_seq_length exactly when max_seq_length exceeds it (never lowered), and
\* only then resize_token_embeddings is called, once, with the tokenizer's
\* vocabulary size; afterwards model_max_length >= max_seq_length.
C10_LimitRaisedBeforeResize ==
    /\ Before("tokenizer.from_pretrained", "model.resize_token_embeddings")
    /\ Before("model.from_pretrained", "tokenizer.from_pretrained")
    /\ Count("model.resize_token_embeddings") <= 1
    /\ Count("model.resize_token_embeddings") = Len(resize_arg)
    /\ (tokenizer.bound /\ pc # "limit") =>
          /\ tokenizer.model_max_length >= data_args.max_seq_length
          /\ tokenizer.model_max_length >= tokenizer.default_max_length
          /\ tokenizer.default_max_length >= data_args.max_seq_length
                => tokenizer.model_max_length = tokenizer.default_max_length
          /\ tokenizer.default_max_length < data_args.max_seq_length
                => tokenizer.model_max_length = data_args.max_seq_length
    /\ (tokenizer.bound /\ pc = "limit") =>
          /\ ~Called("model.resize_token_embeddings")
          /\ tokenizer.model_max_length = tokenizer.default_max_length
    /\ (tokenizer.bound /\ pc \notin {"limit", "resize"}) =>
          /\ resize_arg = <<tokenizer.len>>
          /\ model.embeddings = tokenizer.len

C10_Witness ==
    /\ Called("model.resize_token_embeddings")
    /\ tokenizer.default_max_length < data_args.max_seq_length
    /\ tokenizer.model_max_length = data_args.max_seq_length
    /\ resize_arg = <<tokenizer.len>>

====
